---- MODULE Spec2Model ----
(***************************************************************************)
(* Media platform: the asynchronous media-processing pipeline.             *)
(*                                                                         *)
(*   lambda/index.js   (src/unnamed/part_003)  the processing worker       *)
(*   backend/src/index.js (src/unnamed/part_000) the API service           *)
(*   backend/schema.sql                        the media table             *)
(*                                                                         *)
(* Every await of the worker and of the API handlers is one step: other    *)
(* worker invocations and other requests interleave between two awaits.    *)
(***************************************************************************)
EXTENDS Integers, Sequences, FiniteSets, TLC

(***************************************************************************)
(* Bounds of the model.                                                    *)
(***************************************************************************)
MaxReceive == 2     \* deliveries of one message before it is dead-lettered
MaxBatch == 2       \* messages handed to one invocation (batch_size is 10)

Workers == {"w1", "w2"}     \* concurrent invocations of the worker
Requests == {"r1"}          \* concurrent GET /api/media requests
MediaIds == {1, 2}          \* rows of the media table
Users == {7, 8}             \* user ids
MsgIds == MediaIds          \* one message per row: message m is the job of row m

(***************************************************************************)
(* Values.  An optional value is a sequence of length 0 or 1; an object    *)
(* key is the sequence of its pieces, where "." is always a piece of its   *)
(* own and no other piece contains a dot.                                  *)
(***************************************************************************)
None == <<>>
Some(x) == <<x>>
NoKey == <<>>               \* SQL NULL / JS undefined for a key
NoText == "<null>"          \* SQL NULL for a text column
NoTime == 0                 \* SQL NULL for a timestamp
NoId == 0                   \* JS undefined for mediaId / userId
NoType == <<>>              \* JS undefined for fileType

ImageJpeg == <<"image", "jpeg">>
ImagePng == <<"image", "png">>
VideoMp4 == <<"video", "mp4">>
AppPdf == <<"application", "pdf">>

\* String.prototype.startsWith(major + "/") on a MIME type major/minor.
StartsWith(fileType, major) == fileType[1] = major

(***************************************************************************)
(* Blobs of the object store: content type, encoded format, dimensions,    *)
(* length.                                                                 *)
(***************************************************************************)
Blob(ct, fmt, w, h, len) == [ctype |-> ct, fmt |-> fmt, w |-> w, h |-> h, len |-> len]

\* The length of a JPEG encoding is a function of its dimensions and quality;
\* only that it is a function matters here.
EncodedLen(w, h, q) == (w * h * q) \div 100

RoundDiv(a, b) == (2 * a + b) \div (2 * b)

\* sharp: resize(300, 300, {fit: 'cover'}).jpeg({quality: 80})
ThumbBlob(src) == Blob(ImageJpeg, "jpeg", 300, 300, EncodedLen(300, 300, 80))

\* sharp: resize(800, 800, {fit: 'inside'}).jpeg({quality: 85}); the scale
\* is that of the tighter side, the other side is rounded.
MediumW(w, h) == IF w >= h THEN 800 ELSE RoundDiv(w * 800, h)
MediumH(w, h) == IF w >= h THEN RoundDiv(h * 800, w) ELSE 800
MediumBlob(src) ==
    Blob(ImageJpeg, "jpeg", MediumW(src.w, src.h), MediumH(src.w, src.h),
         EncodedLen(MediumW(src.w, src.h), MediumH(src.w, src.h), 85))

\* The 1x1 PNG of processVideo, stored with ContentType image/jpeg.
PlaceholderBlob == Blob(ImageJpeg, "png", 1, 1, 70)

\* Formats sharp decodes.
Decodable(b) == b.fmt \in {"jpeg", "png"}

(***************************************************************************)
(* Object keys.                                                            *)
(***************************************************************************)
\* Faulty variant: a derivation that appends the suffix to the whole key.
ReplaceExtAppending(key, suffix) == key \o suffix

\* s3Key.replace(/\.[^.]+$/, suffix): the last "." and the dot-free text
\* after it are replaced; a key with no such ending is returned unchanged.
ReplaceExt(key, suffix) ==
    IF Len(key) >= 2 /\ key[Len(key) - 1] = "." /\ key[Len(key)] # "."
    THEN SubSeq(key, 1, Len(key) - 2) \o suffix
    ELSE key

ThumbKey(key) == ReplaceExt(key, <<"_thumb", ".", "jpg">>)
MediumKey(key) == ReplaceExt(key, <<"_medium", ".", "jpg">>)

\* `uploads/${req.userId}/${Date.now()}-${fileName}`
UploadKey(userId, ts, fileName) ==
    <<"uploads/", ToString(userId), "/", ToString(ts), "-">> \o fileName

(***************************************************************************)
(* What clients upload: file name, declared type, and the bytes they PUT.  *)
(***************************************************************************)
Upload(fn, ft, blob) == [fileName |-> fn, fileType |-> ft, blob |-> blob]

Uploads ==
    { Upload(<<"cat", ".", "jpg">>, ImageJpeg, Blob(ImageJpeg, "jpeg", 1000, 500, 9000)),
      Upload(<<"cat">>, ImagePng, Blob(ImagePng, "png", 1000, 500, 9500)),
      Upload(<<"clip", ".", "mp4">>, VideoMp4, Blob(VideoMp4, "mp4", 0, 0, 50000)),
      Upload(<<"doc", ".", "pdf">>, AppPdf, Blob(AppPdf, "pdf", 0, 0, 700)),
      Upload(<<"bad", ".", "jpg">>, ImageJpeg, Blob(ImageJpeg, "corrupt", 0, 0, 10)) }

VARIABLES
    media,      \* the media table: id -> row
    objects,    \* the object store: key -> blob
    cache,      \* redis: user id -> the cached listing of `user:${id}:media`
    now,        \* the store's clock, NOW()
    msgs,       \* the queue: message id -> body, state, receive count
    pc,         \* per invocation: the await it is at
    batch,      \* per invocation: event.Records
    idx,        \* per invocation: position of the for loop in the batch
    obj,        \* per invocation: originalObject
    meta,       \* per invocation: the metadata object being built
    err,        \* per invocation: the error caught or thrown
    rpc,        \* per listing request: the await it is at
    rdata,      \* per listing request: the rows its query returned
    wroteAt,    \* history, per invocation: time of its completion update
    completedAt,\* history, per user: time of the completion update of the
                \* latest run that went on to finish its cache invalidation
    shared,     \* the shared_media table, in the order of insertion
    spc,        \* per share request: the await it is at
    sreq,       \* per share request: caller, media id and target email
    sres,       \* per share request: the status of its last response
    dbPool,     \* config/database.js: let dbPool
    cachedCredentials, \* config/database.js: let cachedCredentials
    fetches,    \* history: answers of the secret provider received so far
    ipc,        \* per call of initializeDatabasePool: the await it is at
    cpc,        \* the call of closeDatabasePool: the await it is at
    server,     \* the API process: starting, listening or exited
    initOk,     \* history: a call of initializeDatabasePool has returned a
                \* pool and closeDatabasePool has not been called since
    kpc,        \* per confirm request: the await it is at
    kreq,       \* per confirm request: caller and media id
    krow,       \* per confirm request: the row its query returned
    kres,       \* per confirm request: the status of its last response
    accounts,   \* the users table, in the order of insertion
    gpc,        \* per register request: the await it is at
    greq,       \* per register request: email and username
    gres        \* per register request: the status of its last response

shareVars == <<shared, spc, sreq, sres>>
dbVars == <<dbPool, cachedCredentials, fetches, ipc, cpc, server, initOk>>
confirmVars == <<kpc, kreq, krow, kres>>
registerVars == <<accounts, gpc, greq, gres>>
apiVars == <<shareVars, dbVars, confirmVars, registerVars>>

vars == <<media, objects, cache, now, msgs, pc, batch, idx, obj, meta, err,
          rpc, rdata, wroteAt, completedAt, apiVars>>

workerVars == <<pc, batch, idx, obj, meta, err, wroteAt>>
listVars == <<rpc, rdata>>

(***************************************************************************)
(* The media table (schema.sql) and the two UPDATEs of the worker.         *)
(***************************************************************************)
\* INSERT INTO media (user_id, s3_key, file_name, file_type, status, ...)
\* VALUES ($1, $2, $3, $4, 'pending', ...): the other columns default to NULL.
NewMedia(userId, key, fileName, fileType) ==
    [user_id |-> userId, s3_key |-> key, file_name |-> fileName,
     file_type |-> fileType, status |-> "pending", metadata |-> None,
     thumbnail_key |-> NoKey, error_message |-> NoText, processed_at |-> NoTime]

\* Faulty variant: a status update that also wipes what completion wrote.
updateMediaStatusWiping(tbl, mediaId, status, errorMessage) ==
    [m \in DOMAIN tbl |->
        IF m = mediaId
        THEN [tbl[m] EXCEPT !.status = status, !.error_message = errorMessage,
                            !.metadata = None, !.thumbnail_key = NoKey]
        ELSE tbl[m]]

\* Faulty variant: a status update without its WHERE clause.
updateMediaStatusEveryRow(tbl, mediaId, status, errorMessage) ==
    [m \in DOMAIN tbl |->
        [tbl[m] EXCEPT !.status = status, !.error_message = errorMessage]]

\* UPDATE media SET status = $1, error_message = $2, updated_at = NOW()
\* WHERE id = $3.  An id that matches no row updates nothing.
updateMediaStatus(tbl, mediaId, status, errorMessage) ==
    [m \in DOMAIN tbl |->
        IF m = mediaId
        THEN [tbl[m] EXCEPT !.status = status, !.error_message = errorMessage]
        ELSE tbl[m]]

\* UPDATE media SET status = $1, metadata = $2, thumbnail_key = $3,
\* processed_at = NOW(), updated_at = NOW() WHERE id = $4, with
\* $3 = metadata.thumbnailKey (undefined, hence NULL, when there is none).
MetaThumbnailKey(md) == IF "thumbnailKey" \in DOMAIN md THEN md.thumbnailKey ELSE NoKey

\* Faulty variant: a completion update that leaves processed_at alone.
updateMediaMetadataUnstamped(tbl, mediaId, md, status, time) ==
    [m \in DOMAIN tbl |->
        IF m = mediaId
        THEN [tbl[m] EXCEPT !.status = status, !.metadata = Some(md),
                            !.thumbnail_key = MetaThumbnailKey(md)]
        ELSE tbl[m]]

\* Faulty variant: a completion update that points the record at its
\* thumbnail.
updateMediaMetadataRekeying(tbl, mediaId, md, status, time) ==
    [m \in DOMAIN tbl |->
        IF m = mediaId
        THEN [tbl[m] EXCEPT !.status = status, !.metadata = Some(md),
                            !.thumbnail_key = MetaThumbnailKey(md),
                            !.s3_key = IF MetaThumbnailKey(md) # NoKey
                                       THEN MetaThumbnailKey(md) ELSE @,
                            !.processed_at = time]
        ELSE tbl[m]]

updateMediaMetadata(tbl, mediaId, md, status, time) ==
    [m \in DOMAIN tbl |->
        IF m = mediaId
        THEN [tbl[m] EXCEPT !.status = status, !.metadata = Some(md),
                            !.thumbnail_key = MetaThumbnailKey(md),
                            !.processed_at = time]
        ELSE tbl[m]]

(***************************************************************************)
(* Queue messages.                                                         *)
(***************************************************************************)
\* JSON.stringify({mediaId, userId, s3Key, fileType}) of the confirm route.
JobBody(mediaId, userId, key, fileType) ==
    [json |-> TRUE, mediaId |-> mediaId, userId |-> userId, s3Key |-> key,
     fileType |-> fileType]

NoBody == JobBody(NoId, NoId, NoKey, NoType)

\* The bodies a well-formed job can be damaged into: not JSON at all, or JSON
\* lacking one of the four fields.
Damaged(b) ==
    { [b EXCEPT !.json = FALSE],
      [b EXCEPT !.mediaId = NoId],
      [b EXCEPT !.userId = NoId],
      [b EXCEPT !.s3Key = NoKey],
      [b EXCEPT !.fileType = NoType] }

Malformed(b) ==
    \/ ~b.json
    \/ b.mediaId = NoId
    \/ b.userId = NoId
    \/ b.s3Key = NoKey
    \/ b.fileType = NoType

\* sqs.sendMessage: the message enters the queue, visible, never received.
sendMessage(q, i, body) == [q EXCEPT ![i] = [body |-> body, st |-> "visible", rc |-> 0]]

TypeOK ==
    /\ \A m \in DOMAIN media : media[m].status \in {"pending", "processing", "ready", "failed"}
    /\ now \in Nat
    /\ \A w \in Workers : pc[w] \in
          {"idle", "parse", "setProcessing", "getObject", "imgThumb", "imgMedium",
           "vidThumb", "updateMetadata", "invalidateExact", "invalidatePattern",
           "catch", "raised", "returned"}

(***************************************************************************)
(* The API process at its start: nothing shared, no share request under    *)
(* way, no pool, no credentials, startServer not yet called.               *)
(***************************************************************************)
ShareReqs == {"s1", "s2"}       \* concurrent POST /api/media/:id/share requests
InitCalls == {"main", "other"}  \* calls of initializeDatabasePool: that of
                                \* startServer, and any other caller's

NoRequest == [userId |-> NoId, id |-> NoId, targetEmail |-> NoText]

ConfirmReqs == {"k1", "k2"}     \* concurrent POST /api/media/:id/confirm requests
RegisterReqs == {"g1", "g2"}    \* concurrent POST /api/auth/register requests

NoConfirm == [userId |-> NoId, id |-> NoId]

\* A row of the users table (the password hash is left out).
UserRow(id, email, username) == [id |-> id, email |-> email, username |-> username]
NoRegister == [email |-> NoText, username |-> NoText]

InitApi ==
    /\ shared = <<>>
    /\ spc = [r \in ShareReqs |-> "idle"]
    /\ sreq = [r \in ShareReqs |-> NoRequest]
    /\ sres = [r \in ShareReqs |-> 0]
    /\ dbPool = None
    /\ cachedCredentials = None
    /\ fetches = 0
    /\ ipc = [c \in InitCalls |-> "idle"]
    /\ cpc = "idle"
    /\ server = "starting"
    /\ initOk = FALSE
    /\ kpc = [r \in ConfirmReqs |-> "idle"]
    /\ kreq = [r \in ConfirmReqs |-> NoConfirm]
    /\ krow = [r \in ConfirmReqs |-> None]
    /\ kres = [r \in ConfirmReqs |-> 0]
    /\ accounts = [k \in 1..2 |-> UserRow(6 + k, IF k = 1 THEN "ann@example.com"
                                                    ELSE "bob@example.com",
                                       IF k = 1 THEN "ann" ELSE "bob")]
    /\ gpc = [r \in RegisterReqs |-> "idle"]
    /\ greq = [r \in RegisterReqs |-> NoRegister]
    /\ gres = [r \in RegisterReqs |-> 0]

(***************************************************************************)
(* Initial state: two users have each asked for an upload URL, so the      *)
(* media table holds two pending rows; nothing is uploaded, queued or      *)
(* cached yet, and no invocation runs.                                     *)
(***************************************************************************)
RowFor(m, userId, up) ==
    NewMedia(userId, UploadKey(userId, m, up.fileName), up.fileName, up.fileType)

SecondUpload == Upload(<<"dog", ".", "png">>, ImagePng, Blob(ImagePng, "png", 400, 600, 4000))

Init ==
    /\ \E up \in Uploads :
          media = [m \in MediaIds |->
                     IF m = 1 THEN RowFor(m, 7, up) ELSE RowFor(m, 8, SecondUpload)]
    /\ objects = <<>>
    /\ cache = [u \in Users |-> None]
    /\ now = 0
    /\ msgs = [i \in MsgIds |-> [body |-> NoBody, st |-> "none", rc |-> 0]]
    /\ pc = [w \in Workers |-> "idle"]
    /\ batch = [w \in Workers |-> <<>>]
    /\ idx = [w \in Workers |-> 0]
    /\ obj = [w \in Workers |-> None]
    /\ meta = [w \in Workers |-> None]
    /\ err = [w \in Workers |-> NoText]
    /\ rpc = [r \in Requests |-> "idle"]
    /\ rdata = [r \in Requests |-> None]
    /\ wroteAt = [w \in Workers |-> NoTime]
    /\ completedAt = [u \in Users |-> NoTime]
    /\ InitApi

(***************************************************************************)
(* The object store.                                                       *)
(***************************************************************************)
\* s3.putObject: creates or overwrites.
putObject(store, key, blob) ==
    [k \in DOMAIN store \cup {key} |-> IF k = key THEN blob ELSE store[k]]

\* Images of many sizes, each under a name of its own.
Sides == {200, 400, 800, 1000, 1600}

SizedUploads ==
    { Upload(<<"img", ToString(w), "x", ToString(h), ".", "png">>, ImagePng,
             Blob(ImagePng, "png", w, h, (w * h) \div 100)) : w, h \in Sides }

BlobOf(fileName) ==
    (CHOOSE up \in Uploads \cup {SecondUpload} \cup SizedUploads : up.fileName = fileName).blob

\* The client PUTs the file to the presigned upload URL of the row.
ClientUpload(m) ==
    /\ media[m].s3_key \notin DOMAIN objects
    /\ objects' = putObject(objects, media[m].s3_key, BlobOf(media[m].file_name))
    /\ UNCHANGED <<media, cache, now, msgs, workerVars, listVars, apiVars, completedAt>>

(***************************************************************************)
(* POST /api/media/:id/confirm: the row is looked up by id and owner and   *)
(* a job built from it is sent to the queue.                               *)
(***************************************************************************)
Confirm(u, m) ==
    /\ m \in DOMAIN media /\ media[m].user_id = u
    /\ msgs[m].st = "none"
    /\ msgs' = sendMessage(msgs, m, JobBody(m, u, media[m].s3_key, media[m].file_type))
    /\ UNCHANGED <<media, objects, cache, now, workerVars, listVars, apiVars, completedAt>>

\* Some other producer puts a damaged job on the queue.
SendDamaged(m) ==
    /\ msgs[m].st = "none"
    /\ \E b \in Damaged(JobBody(m, media[m].user_id, media[m].s3_key, media[m].file_type)) :
          msgs' = sendMessage(msgs, m, b)
    /\ UNCHANGED <<media, objects, cache, now, workerVars, listVars, apiVars, completedAt>>

(***************************************************************************)
(* The queue and the event source mapping: a batch of visible messages is  *)
(* handed to an invocation; messages of an invocation that returned are    *)
(* deleted, those of one that raised become visible again, until a message *)
(* has been received MaxReceive times and is dead-lettered.                *)
(***************************************************************************)
Batches ==
    { b \in UNION { [1..n -> DOMAIN msgs] : n \in 1..MaxBatch } :
        /\ \A i, j \in DOMAIN b : i # j => b[i] # b[j]
        /\ \A i \in DOMAIN b : msgs[b[i]].st = "visible" }

\* event.Records of a batch: each record carries its message id and body.
Records(b) == [k \in DOMAIN b |-> [messageId |-> b[k], body |-> msgs[b[k]].body]]

InBatch(b, i) == \E k \in DOMAIN b : b[k] = i
InRecords(rs, i) == \E k \in DOMAIN rs : rs[k].messageId = i

Receive(w) ==
    /\ pc[w] = "idle"
    /\ \E b \in Batches :
          /\ batch' = [batch EXCEPT ![w] = Records(b)]
          /\ msgs' = [i \in DOMAIN msgs |->
                         IF InBatch(b, i)
                         THEN [msgs[i] EXCEPT !.st = "inflight", !.rc = @ + 1]
                         ELSE msgs[i]]
    /\ idx' = [idx EXCEPT ![w] = 1]
    /\ pc' = [pc EXCEPT ![w] = "parse"]
    /\ obj' = [obj EXCEPT ![w] = None]
    /\ meta' = [meta EXCEPT ![w] = None]
    /\ err' = [err EXCEPT ![w] = NoText]
    /\ UNCHANGED <<media, objects, cache, now, wroteAt, listVars, apiVars, completedAt>>

\* The visibility timeout of a message in flight runs out while its
\* invocation is still at work: the message is delivered again.
VisibilityTimeout(i) ==
    /\ msgs[i].st = "inflight"
    /\ msgs[i].rc < MaxReceive
    /\ msgs' = [msgs EXCEPT ![i].st = "visible"]
    /\ UNCHANGED <<media, objects, cache, now, workerVars, listVars, apiVars, completedAt>>

\* A message that has left the queue, deleted or dead-lettered.
Gone(st) == [body |-> NoBody, st |-> st, rc |-> 0]

\* After a failed receive the message is visible again, or dead-lettered once
\* it has been received MaxReceive times.
Released(msg) == IF msg.rc < MaxReceive THEN [msg EXCEPT !.st = "visible"] ELSE Gone("dead")

\* The invocation is over: its locals are gone.
EndInvocation(w) ==
    /\ pc' = [pc EXCEPT ![w] = "idle"]
    /\ batch' = [batch EXCEPT ![w] = <<>>]
    /\ idx' = [idx EXCEPT ![w] = 0]
    /\ obj' = [obj EXCEPT ![w] = None]
    /\ meta' = [meta EXCEPT ![w] = None]
    /\ err' = [err EXCEPT ![w] = NoText]
    /\ wroteAt' = [wroteAt EXCEPT ![w] = NoTime]

\* The handler returned: its messages are deleted from the queue.  A message
\* whose visibility timeout ran out meanwhile is not: it stays to be
\* delivered again (at-least-once delivery).
HandlerReturned(w) ==
    /\ pc[w] = "returned"
    /\ msgs' = [i \in DOMAIN msgs |->
                   IF InRecords(batch[w], i) /\ msgs[i].st = "inflight"
                   THEN Gone("deleted")
                   ELSE msgs[i]]
    /\ EndInvocation(w)
    /\ UNCHANGED <<media, objects, cache, now, listVars, apiVars, completedAt>>

\* Faulty variant: a raise that still acknowledges the records before the
\* one that failed.
HandlerRaisedPartialAck(w) ==
    /\ pc[w] = "raised"
    /\ msgs' = [i \in DOMAIN msgs |->
                   IF \E k \in 1..(idx[w] - 1) : batch[w][k].messageId = i
                   THEN Gone("deleted")
                   ELSE IF InRecords(batch[w], i) /\ msgs[i].st = "inflight"
                        THEN Released(msgs[i])
                        ELSE msgs[i]]
    /\ EndInvocation(w)
    /\ UNCHANGED <<media, objects, cache, now, listVars, apiVars, completedAt>>

\* The handler raised: none of its messages is deleted.
HandlerRaised(w) ==
    /\ pc[w] = "raised"
    /\ msgs' = [i \in DOMAIN msgs |->
                   IF InRecords(batch[w], i) /\ msgs[i].st = "inflight"
                   THEN Released(msgs[i])
                   ELSE msgs[i]]
    /\ EndInvocation(w)
    /\ UNCHANGED <<media, objects, cache, now, listVars, apiVars, completedAt>>

(***************************************************************************)
(* exports.handler and processMedia.  A call to the store, the object      *)
(* store or the cache either succeeds or rejects; what is thrown inside    *)
(* the try of processMedia goes to its catch, and what processMedia throws *)
(* is thrown again by the handler.                                         *)
(***************************************************************************)
Cur(w) == batch[w][idx[w]].body

\* The row the current record of invocation w is about, if any.
Target(w) == Cur(w).mediaId

\* History: a run for row m has written ready at time t and has finished its
\* cache invalidation.
Completed(c, m, t) ==
    [u \in Users |->
        IF m \in DOMAIN media /\ media[m].user_id = u /\ t > c[u] THEN t ELSE c[u]]

\* The text of the error a client (pg, aws-sdk, ioredis) rejects with when
\* its service cannot be reached.
Unavailable == "connect ECONNREFUSED"

Goto(w, label) == pc' = [pc EXCEPT ![w] = label]
Throw(w, label, text) ==
    /\ pc' = [pc EXCEPT ![w] = label]
    /\ err' = [err EXCEPT ![w] = text]

\* const message = JSON.parse(record.body)
Parse(w) ==
    /\ pc[w] = "parse"
    /\ IF Cur(w).json
       THEN Goto(w, "setProcessing") /\ UNCHANGED err
       ELSE Throw(w, "raised", "SyntaxError")
    /\ UNCHANGED <<media, objects, cache, now, msgs, batch, idx, obj, meta, wroteAt, listVars, apiVars, completedAt>>

\* Faulty variant: a run that starts without marking the record processing.
SetProcessingSkipped(w) ==
    /\ pc[w] = "setProcessing"
    /\ Goto(w, "getObject")
    /\ UNCHANGED <<media, err, objects, cache, now, msgs, batch, idx, obj, meta,
                   wroteAt, listVars, apiVars, completedAt>>

\* await updateMediaStatus(mediaId, 'processing')
SetProcessing(w) ==
    /\ pc[w] = "setProcessing"
    /\ \/ /\ media' = updateMediaStatus(media, Cur(w).mediaId, "processing", NoText)
          /\ Goto(w, "getObject")
          /\ UNCHANGED err
       \/ /\ Throw(w, "catch", Unavailable)
          /\ UNCHANGED media
    /\ UNCHANGED <<objects, cache, now, msgs, batch, idx, obj, meta, wroteAt, listVars, apiVars, completedAt>>

\* Faulty variant: a dispatch that passes videos through.
DispatchImagesOnly(fileType) ==
    IF StartsWith(fileType, "image") THEN "imgThumb" ELSE "updateMetadata"

\* Faulty variant: a dispatch that takes every file for an image.
DispatchAlwaysImage(fileType) == "imgThumb"

\* The branch processMedia takes once the original is there.
Dispatch(fileType) ==
    IF StartsWith(fileType, "image") THEN "imgThumb"
    ELSE IF StartsWith(fileType, "video") THEN "vidThumb"
    ELSE "updateMetadata"

\* let metadata = {size: originalObject.ContentLength, contentType: ...}
BaseMeta(blob) == [size |-> blob.len, contentType |-> blob.ctype]

\* Faulty variant: a fetch outside the try, whose not-found never reaches
\* the catch.
GetObjectUncaught(w) ==
    /\ pc[w] = "getObject"
    /\ \/ /\ Cur(w).s3Key \notin DOMAIN objects
          /\ Throw(w, "raised", "NoSuchKey")
          /\ UNCHANGED <<obj, meta>>
       \/ /\ Cur(w).s3Key \in DOMAIN objects
          /\ obj' = [obj EXCEPT ![w] = Some(objects[Cur(w).s3Key])]
          /\ meta' = [meta EXCEPT ![w] = Some(BaseMeta(objects[Cur(w).s3Key]))]
          /\ Goto(w, "updateMetadata") /\ UNCHANGED err
    /\ UNCHANGED <<media, objects, cache, now, msgs, batch, idx, wroteAt, listVars, apiVars, completedAt>>

\* const originalObject = await s3.getObject({Key: s3Key}).promise(), then
\* the dispatch on fileType.startsWith, which throws a TypeError on undefined.
GetObject(w) ==
    /\ pc[w] = "getObject"
    /\ \/ /\ Cur(w).s3Key = NoKey
          /\ Throw(w, "catch", "MissingRequiredParameter")
          /\ UNCHANGED <<obj, meta>>
       \/ /\ Cur(w).s3Key # NoKey /\ Cur(w).s3Key \notin DOMAIN objects
          /\ Throw(w, "catch", "NoSuchKey")
          /\ UNCHANGED <<obj, meta>>
       \/ /\ Cur(w).s3Key \in DOMAIN objects
          /\ Throw(w, "catch", Unavailable)
          /\ UNCHANGED <<obj, meta>>
       \/ /\ Cur(w).s3Key \in DOMAIN objects
          /\ obj' = [obj EXCEPT ![w] = Some(objects[Cur(w).s3Key])]
          /\ meta' = [meta EXCEPT ![w] = Some(BaseMeta(objects[Cur(w).s3Key]))]
          /\ IF Cur(w).fileType = NoType
             THEN Throw(w, "catch", "TypeError")
             ELSE Goto(w, Dispatch(Cur(w).fileType)) /\ UNCHANGED err
    /\ UNCHANGED <<media, objects, cache, now, msgs, batch, idx, wroteAt, listVars, apiVars, completedAt>>

\* Record extension: the fields of r, then those of s.
Extend(r, s) == [f \in DOMAIN r \cup DOMAIN s |-> IF f \in DOMAIN s THEN s[f] ELSE r[f]]

\* processImage, to its first putObject: image.metadata() rejects on bytes
\* sharp cannot decode; the thumbnail is written under thumbnailKey.
ImgThumb(w) ==
    /\ pc[w] = "imgThumb"
    /\ LET src == obj[w][1]
           key == ThumbKey(Cur(w).s3Key)
       IN  \/ /\ ~Decodable(src)
              /\ Throw(w, "catch", "unsupported image format")
              /\ UNCHANGED <<objects, meta>>
           \/ /\ Decodable(src)
              /\ Throw(w, "catch", Unavailable)
              /\ UNCHANGED <<objects, meta>>
           \/ /\ Decodable(src)
              /\ objects' = putObject(objects, key, ThumbBlob(src))
              /\ meta' = [meta EXCEPT ![w] = Some(Extend(meta[w][1],
                              [width |-> src.w, height |-> src.h, format |-> src.fmt,
                               thumbnailKey |-> key]))]
              /\ Goto(w, "imgMedium")
              /\ UNCHANGED err
    /\ UNCHANGED <<media, cache, now, msgs, batch, idx, obj, wroteAt, listVars, apiVars, completedAt>>

\* Faulty variant: the medium key goes into the metadata while its object
\* is never written.
ImgMediumUnwritten(w) ==
    /\ pc[w] = "imgMedium"
    /\ meta' = [meta EXCEPT ![w] = Some(Extend(meta[w][1],
                    [mediumKey |-> MediumKey(Cur(w).s3Key)]))]
    /\ Goto(w, "updateMetadata")
    /\ UNCHANGED <<err, objects, media, cache, now, msgs, batch, idx, obj, wroteAt,
                   listVars, apiVars, completedAt>>

\* processImage, its second putObject: the medium derivative under mediumKey.
ImgMedium(w) ==
    /\ pc[w] = "imgMedium"
    /\ LET src == obj[w][1]
           key == MediumKey(Cur(w).s3Key)
       IN  \/ /\ Throw(w, "catch", Unavailable)
              /\ UNCHANGED <<objects, meta>>
           \/ /\ objects' = putObject(objects, key, MediumBlob(src))
              /\ meta' = [meta EXCEPT ![w] = Some(Extend(meta[w][1], [mediumKey |-> key]))]
              /\ Goto(w, "updateMetadata")
              /\ UNCHANGED err
    /\ UNCHANGED <<media, cache, now, msgs, batch, idx, obj, wroteAt, listVars, apiVars, completedAt>>

\* Faulty variant: a video transform that leaves the codec out.
VidThumbWithoutCodec(w) ==
    /\ pc[w] = "vidThumb"
    /\ objects' = putObject(objects, ThumbKey(Cur(w).s3Key), PlaceholderBlob)
    /\ meta' = [meta EXCEPT ![w] = Some(Extend(meta[w][1],
                    [duration |-> 0, thumbnailKey |-> ThumbKey(Cur(w).s3Key)]))]
    /\ Goto(w, "updateMetadata")
    /\ UNCHANGED <<err, media, cache, now, msgs, batch, idx, obj, wroteAt, listVars, apiVars, completedAt>>

\* processVideo: duration 0, codec 'unknown', the placeholder under thumbnailKey.
VidThumb(w) ==
    /\ pc[w] = "vidThumb"
    /\ LET key == ThumbKey(Cur(w).s3Key)
       IN  \/ /\ Throw(w, "catch", Unavailable)
              /\ UNCHANGED <<objects, meta>>
           \/ /\ objects' = putObject(objects, key, PlaceholderBlob)
              /\ meta' = [meta EXCEPT ![w] = Some(Extend(meta[w][1],
                              [duration |-> 0, codec |-> "unknown", thumbnailKey |-> key]))]
              /\ Goto(w, "updateMetadata")
              /\ UNCHANGED err
    /\ UNCHANGED <<media, cache, now, msgs, batch, idx, obj, wroteAt, listVars, apiVars, completedAt>>

\* await updateMediaMetadata(mediaId, metadata, 'ready')
UpdateMetadata(w) ==
    /\ pc[w] = "updateMetadata"
    /\ \/ /\ now' = now + 1
          /\ media' = updateMediaMetadata(media, Cur(w).mediaId, meta[w][1], "ready", now')
          /\ wroteAt' = [wroteAt EXCEPT ![w] = now']
          /\ Goto(w, "invalidateExact")
          /\ UNCHANGED err
       \/ /\ Throw(w, "catch", Unavailable)
          /\ UNCHANGED <<media, now, wroteAt>>
    /\ UNCHANGED <<objects, cache, msgs, batch, idx, obj, meta, listVars, apiVars, completedAt>>

\* Faulty variant: the handler moves on to the next record once the first
\* deletion is done, not awaiting the rest of the invalidation.
InvalidateExactMovingOn(w) ==
    /\ pc[w] = "invalidateExact"
    /\ cache' = [u \in Users |-> IF u = Cur(w).userId THEN None ELSE cache[u]]
    /\ IF idx[w] < Len(batch[w])
       THEN idx' = [idx EXCEPT ![w] = @ + 1] /\ Goto(w, "parse")
       ELSE Goto(w, "returned") /\ UNCHANGED idx
    /\ UNCHANGED <<err, media, objects, now, msgs, batch, obj, meta, wroteAt,
                   listVars, apiVars, completedAt>>

\* invalidateUserMediaCache, the key without '*': redis.del(`user:${userId}:media`)
InvalidateExact(w) ==
    /\ pc[w] = "invalidateExact"
    /\ \/ /\ cache' = [u \in Users |-> IF u = Cur(w).userId THEN None ELSE cache[u]]
          /\ Goto(w, "invalidatePattern")
          /\ UNCHANGED err
       \/ /\ Throw(w, "catch", Unavailable)
          /\ UNCHANGED cache
    /\ UNCHANGED <<media, objects, now, msgs, batch, idx, obj, meta, wroteAt, listVars, apiVars, completedAt>>

\* invalidateUserMediaCache, the pattern `user:${userId}:media:*`: redis.keys
\* finds no key, as no route sets one of that form, so nothing is deleted.
\* processMedia then returns, and the handler goes on to the next record or
\* returns.
InvalidatePattern(w) ==
    /\ pc[w] = "invalidatePattern"
    /\ \/ /\ IF idx[w] < Len(batch[w])
             THEN idx' = [idx EXCEPT ![w] = @ + 1] /\ Goto(w, "parse")
             ELSE Goto(w, "returned") /\ UNCHANGED idx
          /\ completedAt' = Completed(completedAt, Target(w), wroteAt[w])
          /\ UNCHANGED err
       \/ /\ Throw(w, "catch", Unavailable)
          /\ UNCHANGED <<idx, completedAt>>
    /\ UNCHANGED <<media, objects, cache, now, msgs, batch, obj, meta, wroteAt, listVars, apiVars>>

\* Faulty variant: a handler that notes the failure of a record and carries
\* on with the next one.
CatchCarryingOn(w) ==
    /\ pc[w] = "catch"
    /\ media' = updateMediaStatus(media, Cur(w).mediaId, "failed", err[w])
    /\ IF idx[w] < Len(batch[w])
       THEN idx' = [idx EXCEPT ![w] = @ + 1] /\ Goto(w, "parse")
       ELSE Goto(w, "raised") /\ UNCHANGED idx
    /\ UNCHANGED <<err, objects, cache, now, msgs, batch, obj, meta,
                   wroteAt, listVars, apiVars, completedAt>>

\* Faulty variant: a catch that throws the error on and records nothing.
CatchRethrowOnly(w) ==
    /\ pc[w] = "catch"
    /\ Goto(w, "raised")
    /\ UNCHANGED <<err, media, objects, cache, now, msgs, batch, idx, obj, meta,
                   wroteAt, listVars, apiVars, completedAt>>

\* Faulty variant: a catch that records the failure without its text.
CatchWithoutText(w) ==
    /\ pc[w] = "catch"
    /\ media' = updateMediaStatus(media, Cur(w).mediaId, "failed", NoText)
    /\ Goto(w, "raised")
    /\ UNCHANGED <<err, objects, cache, now, msgs, batch, idx, obj, meta,
                   wroteAt, listVars, apiVars, completedAt>>

\* catch (error): await updateMediaStatus(mediaId, 'failed', error.message);
\* throw error.  When the update itself rejects, its error is what is thrown.
Catch(w) ==
    /\ pc[w] = "catch"
    /\ \/ /\ media' = updateMediaStatus(media, Cur(w).mediaId, "failed", err[w])
          /\ Goto(w, "raised")
          /\ UNCHANGED err
       \/ /\ Throw(w, "raised", Unavailable)
          /\ UNCHANGED media
    /\ UNCHANGED <<objects, cache, now, msgs, batch, idx, obj, meta, wroteAt, listVars, apiVars, completedAt>>

\* The host ends an invocation that is still at work when its timeout of
\* 300 seconds is over: what it was awaiting never resumes, and the messages
\* of its batch go back to the queue as after a raise.
Terminate(w) ==
    /\ pc[w] \notin {"idle", "returned", "raised"}
    /\ msgs' = [i \in DOMAIN msgs |->
                   IF InRecords(batch[w], i) /\ msgs[i].st = "inflight"
                   THEN Released(msgs[i])
                   ELSE msgs[i]]
    /\ EndInvocation(w)
    /\ UNCHANGED <<media, objects, cache, now, listVars, apiVars, completedAt>>

Worker(w) ==
    \/ Receive(w)
    \/ Parse(w)
    \/ SetProcessing(w)
    \/ GetObject(w)
    \/ ImgThumb(w)
    \/ ImgMedium(w)
    \/ VidThumb(w)
    \/ UpdateMetadata(w)
    \/ InvalidateExact(w)
    \/ InvalidatePattern(w)
    \/ Catch(w)
    \/ HandlerReturned(w)
    \/ HandlerRaised(w)

(***************************************************************************)
(* GET /api/media: the listing of the caller's ready media, served from    *)
(* the cache when it is there, else read from the store and cached for     *)
(* 300 seconds.  The handler awaits three times: redis.get, pool.query,    *)
(* redis.setex.                                                            *)
(***************************************************************************)
\* The columns the listing selects.
ListRow(tbl, m) ==
    [id |-> m, file_name |-> tbl[m].file_name, file_type |-> tbl[m].file_type,
     status |-> tbl[m].status, thumbnail_key |-> tbl[m].thumbnail_key,
     metadata |-> tbl[m].metadata, processed_at |-> tbl[m].processed_at]

\* WHERE user_id = $1 AND status = 'ready' ORDER BY created_at DESC: rows are
\* created in the order of their ids.
ReadyOf(tbl, u) == {m \in DOMAIN tbl : tbl[m].user_id = u /\ tbl[m].status = "ready"}

Descending(S) ==
    CHOOSE s \in [1..Cardinality(S) -> S] :
        \A i, j \in 1..Cardinality(S) : i < j => s[i] > s[j]

ListRows(tbl, u) ==
    [k \in 1..Cardinality(ReadyOf(tbl, u)) |-> ListRow(tbl, Descending(ReadyOf(tbl, u))[k])]

\* A listing as read from the store; readAt is history: the time of the
\* latest completion update the read has seen.
Listing(u, rows, t) == [userId |-> u, rows |-> rows, readAt |-> t]

\* const cached = await redis.get(cacheKey): a hit is returned as it is, a
\* miss goes on to the store; a rejection is answered with status 500.
ListGet(r, u) ==
    /\ rpc[r] = "idle"
    /\ IF cache[u] # None
       THEN UNCHANGED listVars
       ELSE \/ /\ rpc' = [rpc EXCEPT ![r] = "query"]
               /\ rdata' = [rdata EXCEPT ![r] = Some(Listing(u, <<>>, NoTime))]
            \/ UNCHANGED listVars
    /\ UNCHANGED <<media, objects, cache, now, msgs, workerVars, apiVars, completedAt>>

\* const result = await pool.query(...)
ListQuery(r) ==
    /\ rpc[r] = "query"
    /\ \/ /\ rdata' = [rdata EXCEPT ![r] =
                          Some(Listing(@[1].userId, ListRows(media, @[1].userId), now))]
          /\ rpc' = [rpc EXCEPT ![r] = "setex"]
       \/ /\ rdata' = [rdata EXCEPT ![r] = None]
          /\ rpc' = [rpc EXCEPT ![r] = "idle"]
    /\ UNCHANGED <<media, objects, cache, now, msgs, workerVars, apiVars, completedAt>>

\* await redis.setex(cacheKey, 300, JSON.stringify(result.rows)), and the
\* response.
ListSetex(r) ==
    /\ rpc[r] = "setex"
    /\ \/ cache' = [cache EXCEPT ![rdata[r][1].userId] = rdata[r]]
       \/ UNCHANGED cache
    /\ rdata' = [rdata EXCEPT ![r] = None]
    /\ rpc' = [rpc EXCEPT ![r] = "idle"]
    /\ UNCHANGED <<media, objects, now, msgs, workerVars, apiVars, completedAt>>

\* The 300 seconds of a cached listing are over.
CacheExpire(u) ==
    /\ cache[u] # None
    /\ cache' = [cache EXCEPT ![u] = None]
    /\ UNCHANGED <<media, objects, now, msgs, workerVars, listVars, apiVars, completedAt>>

(***************************************************************************)
(* POST /api/media/:id/share: the caller's ready media is shared with the  *)
(* user of an email address.  The handler awaits four times: the query of  *)
(* the media, the query of the target user, the INSERT, redis.del.         *)
(***************************************************************************)
\* The users table: email -> id.
EmailOf == [u \in Users |-> IF u = 7 THEN "ann@example.com" ELSE "bob@example.com"]
TargetEmails == {EmailOf[u] : u \in Users} \cup {"nobody@example.com", NoText}

\* SELECT id FROM users WHERE email = $1
UsersByEmail(email) == {u \in Users : EmailOf[u] = email}

\* Faulty variant: an ownership check that does not look at the status.
OwnAnyStatus(tbl, id, u) == {m \in DOMAIN tbl : m = id /\ tbl[m].user_id = u}

\* SELECT ... FROM media WHERE id = $1 AND user_id = $2 AND status = 'ready'
OwnReady(tbl, id, u) ==
    {m \in DOMAIN tbl : m = id /\ tbl[m].user_id = u /\ tbl[m].status = "ready"}

SamePair(row, mediaId, toUserId) == row.media_id = mediaId /\ row.to_user_id = toUserId

ShareRow(tbl, mediaId, fromUserId, toUserId, time) ==
    [id |-> Len(tbl) + 1, media_id |-> mediaId, from_user_id |-> fromUserId,
     to_user_id |-> toUserId, created_at |-> time]

\* Faulty variant: an INSERT with no uniqueness constraint to stop it.
insertSharedAlways(tbl, mediaId, fromUserId, toUserId, time) ==
    Append(tbl, ShareRow(tbl, mediaId, fromUserId, toUserId, time))

\* INSERT INTO shared_media (media_id, from_user_id, to_user_id, created_at)
\* VALUES ($1, $2, $3, NOW()) ON CONFLICT (media_id, to_user_id) DO NOTHING
insertShared(tbl, mediaId, fromUserId, toUserId, time) ==
    IF \E k \in DOMAIN tbl : SamePair(tbl[k], mediaId, toUserId)
    THEN tbl
    ELSE Append(tbl, ShareRow(tbl, mediaId, fromUserId, toUserId, time))

Respond(r, status) ==
    /\ sres' = [sres EXCEPT ![r] = status]
    /\ spc' = [spc EXCEPT ![r] = "idle"]

Await(r, label) ==
    /\ spc' = [spc EXCEPT ![r] = label]
    /\ UNCHANGED sres

shareFrame == <<media, objects, cache, now, msgs, workerVars, listVars, dbVars, completedAt,
                confirmVars, registerVars>>

\* The request comes in: 400 without a targetEmail, else the first query.
ShareCall(r, u, id, email) ==
    /\ spc[r] = "idle"
    /\ sreq' = [sreq EXCEPT ![r] = [userId |-> u, id |-> id, targetEmail |-> email]]
    /\ IF email = NoText THEN Respond(r, 400) ELSE Await(r, "media")
    /\ UNCHANGED <<shared, shareFrame>>

\* The media query is answered: 404 unless the media is the caller's and ready.
ShareMedia(r) ==
    /\ spc[r] = "media"
    /\ \/ IF OwnReady(media, sreq[r].id, sreq[r].userId) = {}
          THEN Respond(r, 404)
          ELSE Await(r, "user")
       \/ Respond(r, 500)
    /\ UNCHANGED <<shared, sreq, shareFrame>>

\* The user query is answered: 404 when no user has the email.
ShareUser(r) ==
    /\ spc[r] = "user"
    /\ \/ IF UsersByEmail(sreq[r].targetEmail) = {}
          THEN Respond(r, 404)
          ELSE Await(r, "insert")
       \/ Respond(r, 500)
    /\ UNCHANGED <<shared, sreq, shareFrame>>

\* The INSERT is answered.
ShareInsert(r) ==
    /\ spc[r] = "insert"
    /\ \/ /\ \E t \in UsersByEmail(sreq[r].targetEmail) :
                 shared' = insertShared(shared, sreq[r].id, sreq[r].userId, t, now)
          /\ Await(r, "del")
       \/ /\ Respond(r, 500)
          /\ UNCHANGED shared
    /\ UNCHANGED <<sreq, shareFrame>>

\* redis.del(`user:${targetUserId}:shared-media`) is answered, a key no
\* route sets; then the response with the view URL.
ShareDel(r) ==
    /\ spc[r] = "del"
    /\ \/ Respond(r, 200)
       \/ Respond(r, 500)
    /\ UNCHANGED <<shared, sreq, shareFrame>>

(***************************************************************************)
(* POST /api/media/:id/confirm, request by request: the query of the row   *)
(* by id and owner, then sqs.sendMessage.  Here the queue is the sequence  *)
(* of the messages sent, so that every job enqueued is counted.            *)
(***************************************************************************)
MaxJobs == 3

\* Faulty variant: a lookup by id alone.
OwnedByAnyone(tbl, id, u) == {m \in DOMAIN tbl : m = id}

\* SELECT s3_key, file_type FROM media WHERE id = $1 AND user_id = $2
OwnedBy(tbl, id, u) == {m \in DOMAIN tbl : m = id /\ tbl[m].user_id = u}

\* The ids a request can name: those of the rows, and one of no row.
RequestIds == MediaIds \cup {3}

KRespond(r, status) ==
    /\ kres' = [kres EXCEPT ![r] = status]
    /\ kpc' = [kpc EXCEPT ![r] = "idle"]
    /\ krow' = [krow EXCEPT ![r] = None]

confirmFrame == <<media, objects, cache, now, workerVars, listVars, completedAt,
                  shareVars, dbVars, registerVars>>

ConfirmCall(r, u, id) ==
    /\ kpc[r] = "idle"
    /\ Len(msgs) < MaxJobs
    /\ kreq' = [kreq EXCEPT ![r] = [userId |-> u, id |-> id]]
    /\ kpc' = [kpc EXCEPT ![r] = "query"]
    /\ UNCHANGED <<msgs, krow, kres, confirmFrame>>

\* The query is answered: 404 when no row has the id and the caller as owner.
ConfirmQuery(r) ==
    /\ kpc[r] = "query"
    /\ \/ IF OwnedBy(media, kreq[r].id, kreq[r].userId) = {}
          THEN KRespond(r, 404)
          ELSE /\ krow' = [krow EXCEPT ![r] =
                             Some([s3_key |-> media[kreq[r].id].s3_key,
                                   file_type |-> media[kreq[r].id].file_type])]
               /\ kpc' = [kpc EXCEPT ![r] = "send"]
               /\ UNCHANGED kres
       \/ KRespond(r, 500)
    /\ UNCHANGED <<msgs, kreq, confirmFrame>>

\* sqs.sendMessage is answered: the job is in the queue, or the 500.
ConfirmSend(r) ==
    /\ kpc[r] = "send"
    /\ \/ /\ msgs' = Append(msgs,
                         [body |-> JobBody(kreq[r].id, kreq[r].userId,
                                           krow[r][1].s3_key, krow[r][1].file_type),
                          st |-> "visible", rc |-> 0])
          /\ KRespond(r, 200)
       \/ /\ KRespond(r, 500)
          /\ UNCHANGED msgs
    /\ UNCHANGED <<kreq, confirmFrame>>

(***************************************************************************)
(* POST /api/auth/register: the check for the email, bcrypt.hash, the      *)
(* INSERT, each awaited.  users.email is UNIQUE: an INSERT of an email     *)
(* that is there is rejected by the store.                                 *)
(***************************************************************************)
RegisterEmails == {"ann@example.com", "cy@example.com", NoText}
RegisterNames == {"cy", NoText}

\* SELECT id FROM users WHERE email = $1
Registered(tbl, email) == {k \in DOMAIN tbl : tbl[k].email = email}

\* The id the SERIAL column gives the next row.
NextUserId(tbl) == tbl[Len(tbl)].id + 1

GRespond(r, status) ==
    /\ gres' = [gres EXCEPT ![r] = status]
    /\ gpc' = [gpc EXCEPT ![r] = "idle"]

GAwait(r, label) ==
    /\ gpc' = [gpc EXCEPT ![r] = label]
    /\ UNCHANGED gres

registerFrame == <<media, objects, cache, now, msgs, workerVars, listVars, completedAt,
                   shareVars, dbVars, confirmVars>>

\* The request comes in: 400 when a field is missing, else the check.
RegisterCall(r, email, username) ==
    /\ gpc[r] = "idle"
    /\ greq' = [greq EXCEPT ![r] = [email |-> email, username |-> username]]
    /\ IF email = NoText \/ username = NoText THEN GRespond(r, 400) ELSE GAwait(r, "check")
    /\ UNCHANGED <<accounts, registerFrame>>

\* The check is answered: 409 when a user has the email.
RegisterCheck(r) ==
    /\ gpc[r] = "check"
    /\ \/ IF Registered(accounts, greq[r].email) # {}
          THEN GRespond(r, 409)
          ELSE GAwait(r, "hash")
       \/ GRespond(r, 500)
    /\ UNCHANGED <<accounts, greq, registerFrame>>

\* bcrypt.hash is done, and the INSERT is sent.
RegisterHash(r) ==
    /\ gpc[r] = "hash"
    /\ GAwait(r, "insert")
    /\ UNCHANGED <<accounts, greq, registerFrame>>

\* The INSERT is answered: the new row and the 201, or its rejection, which
\* the catch answers with 500; an email that is there by now is rejected
\* for the UNIQUE constraint.
RegisterInsert(r) ==
    /\ gpc[r] = "insert"
    /\ \/ /\ Registered(accounts, greq[r].email) = {}
          /\ accounts' = Append(accounts, UserRow(NextUserId(accounts), greq[r].email,
                                                  greq[r].username))
          /\ GRespond(r, 201)
       \/ /\ GRespond(r, 500)
          /\ UNCHANGED accounts
    /\ UNCHANGED <<greq, registerFrame>>

NextRegister ==
    \/ \E r \in RegisterReqs, email \in RegisterEmails, username \in RegisterNames :
          RegisterCall(r, email, username)
    \/ \E r \in RegisterReqs : RegisterCheck(r)
    \/ \E r \in RegisterReqs : RegisterHash(r)
    \/ \E r \in RegisterReqs : RegisterInsert(r)

InPlay == {1}
Running == Workers

Next ==
    \/ \E m \in InPlay : ClientUpload(m)
    \/ \E m \in InPlay : Confirm(media[m].user_id, m)
    \/ \E m \in InPlay : SendDamaged(m)
    \/ \E i \in MsgIds : VisibilityTimeout(i)
    \/ \E w \in Running : Worker(w)

Spec == Init /\ [][Next]_vars

(***************************************************************************)
(* One invocation at a time, on well-formed jobs, with the listing         *)
(* requests of the owner coming in between its steps: the runs for a row   *)
(* follow each other, a redelivery starts after the run before it is over. *)
(***************************************************************************)
ListUsers == {media[m].user_id : m \in InPlay}

NextSeq ==
    \/ \E m \in InPlay : ClientUpload(m)
    \/ \E m \in InPlay : Confirm(media[m].user_id, m)
    \/ \E i \in MsgIds : VisibilityTimeout(i)
    \/ Worker("w1")
    \/ \E r \in Requests, u \in ListUsers : ListGet(r, u)
    \/ \E r \in Requests : ListQuery(r)
    \/ \E r \in Requests : ListSetex(r)
    \/ \E u \in ListUsers : CacheExpire(u)

SpecSeq == Init /\ [][NextSeq]_vars

(***************************************************************************)
(* Fair delivery: the queue keeps handing its visible messages to the      *)
(* worker, whose invocations keep taking their steps, unless the host ends *)
(* them.                                                                   *)
(***************************************************************************)
NextLive ==
    \/ \E m \in InPlay : ClientUpload(m)
    \/ \E m \in InPlay : Confirm(media[m].user_id, m)
    \/ Worker("w1")
    \/ Terminate("w1")

SpecLive == Init /\ [][NextLive]_vars /\ WF_vars(Worker("w1"))

(***************************************************************************)
(* Batches: both rows are confirmed, so that one invocation can be handed  *)
(* the two jobs together.                                                  *)
(***************************************************************************)
NextBatch ==
    \/ \E m \in MediaIds : ClientUpload(m)
    \/ \E m \in MediaIds : Confirm(media[m].user_id, m)
    \/ Worker("w1")

SpecBatch == Init /\ [][NextBatch]_vars

(***************************************************************************)
(* config/database.js and startServer.  ipc[c] is where call c of          *)
(* initializeDatabasePool stands: idle, at one of its awaits (fetch,       *)
(* creds, connect, query), returned or threw.  Call "main" is the one of   *)
(* startServer; "other" is any other caller of the module, again and       *)
(* again.  closeDatabasePool is called by the SIGINT handler, which exits  *)
(* after it, or by any other caller.                                       *)
(***************************************************************************)
MaxFetch == 3
Closers == {"signal", "caller"}
Alive == server \in {"starting", "listening"}
Pending(c) == ipc[c] \in {"fetch", "creds", "connect", "query"}

dbFrame == <<media, objects, cache, now, msgs, workerVars, listVars, shareVars, completedAt,
             confirmVars, registerVars>>

\* Faulty variant: a startServer that listens whatever became of the pool.
startServerListensAnyway(c, ok) ==
    IF c = "main" THEN server' = "listening" ELSE UNCHANGED server

\* startServer after its await: app.listen, or the catch with process.exit(1).
startServer(c, ok) ==
    IF c = "main"
    THEN server' = IF ok THEN "listening" ELSE "exit1"
    ELSE UNCHANGED server

\* initializeDatabasePool returns dbPool to its caller.
InitReturn(c) ==
    /\ ipc' = [ipc EXCEPT ![c] = "returned"]
    /\ initOk' = TRUE
    /\ startServer(c, TRUE)

\* initializeDatabasePool rethrows from its catch.
InitThrow(c) ==
    /\ ipc' = [ipc EXCEPT ![c] = "threw"]
    /\ UNCHANGED initOk
    /\ startServer(c, FALSE)

InitAwait(c, label) ==
    /\ ipc' = [ipc EXCEPT ![c] = label]
    /\ UNCHANGED <<initOk, server>>

\* getDatabasePool(): the pool, or the throw.
Throws == "throws"
getDatabasePool == IF dbPool = None THEN Throws ELSE dbPool

\* The call of initializeDatabasePool up to its first await: the pool when
\* there is one, else getDatabaseCredentials, which answers from the cache
\* or sends GetSecretValue.
InitCall(c) ==
    /\ Alive
    /\ ~Pending(c)
    /\ c = "main" => (server = "starting" /\ ipc[c] = "idle")
    /\ IF dbPool # None
       THEN InitReturn(c) /\ UNCHANGED fetches
       ELSE IF cachedCredentials # None
       THEN InitAwait(c, "creds") /\ UNCHANGED fetches
       ELSE /\ fetches < MaxFetch
            /\ fetches' = fetches + 1
            /\ InitAwait(c, "fetch")
    /\ UNCHANGED <<dbPool, cachedCredentials, cpc, dbFrame>>

\* GetSecretValue is answered: the secret is cached, or the throw (a
\* rejection, or a response without SecretString).
InitFetched(c) ==
    /\ Alive
    /\ ipc[c] = "fetch"
    /\ \/ /\ cachedCredentials' = Some("credentials")
          /\ InitAwait(c, "creds")
       \/ /\ InitThrow(c)
          /\ UNCHANGED cachedCredentials
    /\ UNCHANGED <<dbPool, fetches, cpc, dbFrame>>

\* The credentials are back in initializeDatabasePool: dbPool = new Pool(...)
\* and the call of dbPool.connect().
InitCreatePool(c) ==
    /\ Alive
    /\ ipc[c] = "creds"
    /\ dbPool' = Some(c)
    /\ InitAwait(c, "connect")
    /\ UNCHANGED <<cachedCredentials, fetches, cpc, dbFrame>>

\* dbPool.connect() is answered: the query of the test, or the throw.
InitConnected(c) ==
    /\ Alive
    /\ ipc[c] = "connect"
    /\ \/ InitAwait(c, "query")
       \/ InitThrow(c)
    /\ UNCHANGED <<dbPool, cachedCredentials, fetches, cpc, dbFrame>>

\* SELECT NOW() is answered: dbPool.on('error', ...) and the return of
\* dbPool, or the throw (of the query, or of .on when dbPool is null again).
InitQueried(c) ==
    /\ Alive
    /\ ipc[c] = "query"
    /\ \/ IF dbPool # None THEN InitReturn(c) ELSE InitThrow(c)
       \/ InitThrow(c)
    /\ UNCHANGED <<dbPool, cachedCredentials, fetches, cpc, dbFrame>>

\* closeDatabasePool is called: nothing to do without a pool, else the
\* await of dbPool.end().  The signal handler exits after the call.
CloseCall(by) ==
    /\ Alive
    /\ cpc = "idle"
    /\ initOk' = FALSE
    /\ IF dbPool = None
       THEN /\ server' = IF by = "signal" THEN "exit0" ELSE server
            /\ UNCHANGED cpc
       ELSE /\ cpc' = by
            /\ UNCHANGED server
    /\ UNCHANGED <<dbPool, cachedCredentials, fetches, ipc, dbFrame>>

\* dbPool.end() is answered: dbPool = null, cachedCredentials = null.
CloseEnded ==
    /\ Alive
    /\ cpc # "idle"
    /\ dbPool' = None
    /\ cachedCredentials' = None
    /\ cpc' = "idle"
    /\ server' = IF cpc = "signal" THEN "exit0" ELSE server
    /\ UNCHANGED <<fetches, ipc, initOk, dbFrame>>

NextDb ==
    \/ \E c \in InitCalls : InitCall(c)
    \/ \E c \in InitCalls : InitFetched(c)
    \/ \E c \in InitCalls : InitCreatePool(c)
    \/ \E c \in InitCalls : InitConnected(c)
    \/ \E c \in InitCalls : InitQueried(c)
    \/ \E by \in Closers : CloseCall(by)
    \/ CloseEnded

SpecDb == Init /\ [][NextDb]_vars

(***************************************************************************)
(* Sharing: user 7's PDF has been processed to ready, user 8's upload is   *)
(* still pending, and share requests come in, two at a time.               *)
(***************************************************************************)
PdfUpload == CHOOSE up \in Uploads : up.fileType = AppPdf

InitShare ==
    /\ media = updateMediaMetadata(
                   [m \in MediaIds |->
                       IF m = 1 THEN RowFor(m, 7, PdfUpload) ELSE RowFor(m, 8, SecondUpload)],
                   1, BaseMeta(PdfUpload.blob), "ready", 1)
    /\ objects = putObject(<<>>, UploadKey(7, 1, PdfUpload.fileName), PdfUpload.blob)
    /\ now = 1
    /\ cache = [u \in Users |-> None]
    /\ msgs = [i \in MsgIds |-> [body |-> NoBody, st |-> "none", rc |-> 0]]
    /\ pc = [w \in Workers |-> "idle"]
    /\ batch = [w \in Workers |-> <<>>]
    /\ idx = [w \in Workers |-> 0]
    /\ obj = [w \in Workers |-> None]
    /\ meta = [w \in Workers |-> None]
    /\ err = [w \in Workers |-> NoText]
    /\ rpc = [r \in Requests |-> "idle"]
    /\ rdata = [r \in Requests |-> None]
    /\ wroteAt = [w \in Workers |-> NoTime]
    /\ completedAt = [u \in Users |-> IF u = 7 THEN 1 ELSE NoTime]
    /\ InitApi

NextShare ==
    \/ \E r \in ShareReqs, u \in Users, id \in MediaIds, email \in TargetEmails :
          ShareCall(r, u, id, email)
    \/ \E r \in ShareReqs : ShareMedia(r)
    \/ \E r \in ShareReqs : ShareUser(r)
    \/ \E r \in ShareReqs : ShareInsert(r)
    \/ \E r \in ShareReqs : ShareDel(r)

SpecShare == InitShare /\ [][NextShare]_vars

SpecRegister == Init /\ [][NextRegister]_vars

(***************************************************************************)
(* Confirming: user 7's PDF has been processed to ready, user 8's upload   *)
(* is pending, the queue is empty, and confirm requests come in, two at a  *)
(* time, from either user for either row or for a row that is not there.   *)
(***************************************************************************)
InitConfirm ==
    /\ media = updateMediaMetadata(
                   [m \in MediaIds |->
                       IF m = 1 THEN RowFor(m, 7, PdfUpload) ELSE RowFor(m, 8, SecondUpload)],
                   1, BaseMeta(PdfUpload.blob), "ready", 1)
    /\ objects = putObject(<<>>, UploadKey(7, 1, PdfUpload.fileName), PdfUpload.blob)
    /\ now = 1
    /\ cache = [u \in Users |-> None]
    /\ msgs = <<>>
    /\ pc = [w \in Workers |-> "idle"]
    /\ batch = [w \in Workers |-> <<>>]
    /\ idx = [w \in Workers |-> 0]
    /\ obj = [w \in Workers |-> None]
    /\ meta = [w \in Workers |-> None]
    /\ err = [w \in Workers |-> NoText]
    /\ rpc = [r \in Requests |-> "idle"]
    /\ rdata = [r \in Requests |-> None]
    /\ wroteAt = [w \in Workers |-> NoTime]
    /\ completedAt = [u \in Users |-> IF u = 7 THEN 1 ELSE NoTime]
    /\ InitApi

NextConfirm ==
    \/ \E r \in ConfirmReqs, u \in Users, id \in RequestIds : ConfirmCall(r, u, id)
    \/ \E r \in ConfirmReqs : ConfirmQuery(r)
    \/ \E r \in ConfirmReqs : ConfirmSend(r)

SpecConfirm == InitConfirm /\ [][NextConfirm]_vars

(***************************************************************************)
(* One upload through the pipeline, for uploads of many sizes: user 7 has  *)
(* asked for an upload URL at time 1700000000 and got media row 42.        *)
(***************************************************************************)
InitSized ==
    /\ \E up \in Uploads \cup SizedUploads :
          media = (42 :> NewMedia(7, UploadKey(7, 1700000000, up.fileName),
                                  up.fileName, up.fileType))
    /\ msgs = (42 :> [body |-> NoBody, st |-> "none", rc |-> 0])
    /\ objects = <<>>
    /\ cache = [u \in Users |-> None]
    /\ now = 0
    /\ pc = [w \in Workers |-> "idle"]
    /\ batch = [w \in Workers |-> <<>>]
    /\ idx = [w \in Workers |-> 0]
    /\ obj = [w \in Workers |-> None]
    /\ meta = [w \in Workers |-> None]
    /\ err = [w \in Workers |-> NoText]
    /\ rpc = [r \in Requests |-> "idle"]
    /\ rdata = [r \in Requests |-> None]
    /\ wroteAt = [w \in Workers |-> NoTime]
    /\ completedAt = [u \in Users |-> NoTime]
    /\ InitApi

NextSized ==
    \/ ClientUpload(42)
    \/ Confirm(7, 42)
    \/ Worker("w1")

SpecSized == InitSized /\ [][NextSized]_vars

(***************************************************************************)
(* Properties.                                                             *)
(***************************************************************************)
Status(m) == media[m].status
Active(w) == pc[w] \notin {"idle"}
\* C1 (as claimed): a record's status changes only along pending ->
\* processing, processing -> ready and processing -> failed; ready and failed
\* are never left (no new job is ever enqueued for a row here).
C1_OnlyForward ==
    [][\A m \in MediaIds :
          media'[m].status # media[m].status =>
              <<media[m].status, media'[m].status>> \in
                  { <<"pending", "processing">>, <<"processing", "ready">>,
                    <<"processing", "failed">> }]_vars

\* C1 (amended): a record's status never returns to pending and never goes
\* from pending straight to ready; every other change happens: a run writes
\* processing at its start whatever the status was (a redelivery takes ready
\* or failed back to processing), ready at completion, failed in its catch.
C1_Transitions ==
    [][\A m \in MediaIds :
          media'[m].status # media[m].status =>
              /\ media'[m].status # "pending"
              /\ <<media[m].status, media'[m].status>> # <<"pending", "ready">>]_vars

\* A redelivered run has taken a completed record back to processing.
C1_Witness ==
    \E m \in MediaIds : Status(m) = "processing" /\ media[m].processed_at # NoTime

HasMeta(m) == media[m].metadata # None
HasThumb(m) == media[m].thumbnail_key # NoKey
HasError(m) == media[m].error_message # NoText

\* C2 (as claimed): in every reachable state a record with a thumbnailKey or
\* metadata has status ready.
C2_DerivedOnlyWhenReady ==
    \A m \in MediaIds : (HasThumb(m) \/ HasMeta(m)) => Status(m) = "ready"

\* C2 (amended): metadata and thumbnailKey are written only by the completion
\* update, in the write that sets status = ready, and are null on a record no
\* completion update has reached; they stay on the record when a later step
\* sets it to processing or failed.
C2_DerivedWrittenWithReady ==
    /\ [](\A m \in MediaIds :
            media[m].processed_at = NoTime => ~HasMeta(m) /\ ~HasThumb(m))
    /\ [][\A m \in MediaIds :
            (media'[m].metadata # media[m].metadata
                \/ media'[m].thumbnail_key # media[m].thumbnail_key)
            => media'[m].status = "ready"]_vars

\* A record that failed after its completion update: failed, with metadata.
C2_Witness == \E m \in MediaIds : Status(m) = "failed" /\ HasMeta(m) /\ HasThumb(m)

\* No invocation is in the middle of a run.
NoRunInProgress == \A w \in Workers : pc[w] \in {"idle", "returned", "raised"}

\* C3 (as claimed): after every completed run, status = ready iff metadata
\* and thumbnailKey are both present.
C3_ReadyIffDerived ==
    NoRunInProgress =>
        \A m \in MediaIds :
            Status(m) # "pending" => (Status(m) = "ready" <=> (HasMeta(m) /\ HasThumb(m)))

\* C3 (amended): a ready record has metadata, and has a thumbnailKey exactly
\* when its declared type is image/* or video/*; any other type is ready
\* with thumbnailKey null.
C3_ReadyShape ==
    \A m \in MediaIds :
        Status(m) = "ready" =>
            /\ HasMeta(m)
            /\ HasThumb(m) <=> (StartsWith(media[m].file_type, "image")
                                   \/ StartsWith(media[m].file_type, "video"))

\* A pass-through record, ready with no thumbnailKey, after its run.
C3_Witness ==
    /\ NoRunInProgress
    /\ \E m \in MediaIds : Status(m) = "ready" /\ HasMeta(m) /\ ~HasThumb(m)

\* C4 (as claimed): after every completed run, interleaved runs included,
\* status = failed iff errorDetail is present.
C4_FailedIffError ==
    NoRunInProgress => \A m \in MediaIds : Status(m) = "failed" <=> HasError(m)

\* The step by which processMedia of invocation w exits through its catch.
CatchExit(w) == pc[w] = "catch" /\ pc'[w] = "raised"

Steps2to6 ==
    {"setProcessing", "getObject", "imgThumb", "imgMedium", "vidThumb",
     "updateMetadata", "invalidateExact", "invalidatePattern"}

C8_ProcessedAtOnce ==
    /\ [](\A m \in MediaIds :
            Status(m) \in {"ready", "failed"} => media[m].processed_at # NoTime)
    /\ [][\A m \in MediaIds :
            media[m].processed_at # NoTime =>
                media'[m].processed_at = media[m].processed_at]_vars

\* C8 (amended): processedAt is written by the completion update only: it is
\* non-null whenever status is ready, it changes only in a step that leaves
\* the record ready, and every such write, a redelivery's included, moves it
\* forward; a record that failed before any completion has it null.
C8_ProcessedAtOnCompletion ==
    /\ [](\A m \in MediaIds : Status(m) = "ready" => media[m].processed_at # NoTime)
    /\ [][\A m \in MediaIds :
            media'[m].processed_at # media[m].processed_at =>
                /\ media'[m].status = "ready"
                /\ media'[m].processed_at > media[m].processed_at]_vars

\* A second completion has overwritten processedAt.
C8_Witness == \E m \in MediaIds : Status(m) = "ready" /\ media[m].processed_at >= 2

\* C9 (as claimed): an invocation whose current message is not valid JSON or
\* lacks a field fails at the parse step: it is about to parse the message or
\* has raised, and is never at a later step of processMedia.
C9_DamagedFailsAtParse ==
    \A w \in Workers :
        (Active(w) /\ Malformed(Cur(w))) => pc[w] \in {"parse", "raised"}

\* The step in which getObject answers not-found, and the steps of the
\* invocation after it.
NotFound(w) ==
    /\ pc[w] = "getObject" /\ pc'[w] # pc[w]
    /\ Cur(w).s3Key # NoKey /\ Cur(w).s3Key \notin DOMAIN objects

NotFoundCaught(w) == pc[w] = "catch" /\ err[w] = "NoSuchKey" /\ pc'[w] # pc[w]

C6_ListingFreshAfterRun ==
    \A u \in Users : cache[u] # None => cache[u][1].readAt >= completedAt[u]

\* The latest completion update of record m is that of a run which went on
\* to succeed.
Succeeded(m) ==
    /\ media[m].processed_at # NoTime
    /\ completedAt[media[m].user_id] = media[m].processed_at

\* C7 (as claimed): a redelivered run on a record whose run before succeeded
\* adds no key to the object store, and its completion update leaves the
\* record ready with the same metadata and thumbnailKey as before.
C7_RedeliveryIdempotent ==
    [][\A w \in Workers :
          (Active(w) /\ Target(w) \in MediaIds /\ Succeeded(Target(w))) =>
              /\ DOMAIN objects' = DOMAIN objects
              /\ media'[Target(w)].processed_at # media[Target(w)].processed_at =>
                    /\ media'[Target(w)].status = "ready"
                    /\ media'[Target(w)].metadata = media[Target(w)].metadata
                    /\ media'[Target(w)].thumbnail_key = media[Target(w)].thumbnail_key]_vars

IsImage(fileType) == fileType # NoType /\ StartsWith(fileType, "image")
IsVideo(fileType) == fileType # NoType /\ StartsWith(fileType, "video")
IsOther(fileType) == fileType # NoType /\ ~IsImage(fileType) /\ ~IsVideo(fileType)

\* A step of invocation w itself.
StepOf(w) == Active(w) /\ pc'[w] # pc[w]

\* C11: once the original is fetched, an image/* job goes to the image
\* transform, a video/* job to the video transform and any other type
\* straight to the completion update; a run for another type writes no
\* object, and its completion update leaves the record ready with metadata
\* holding exactly the size and content type of the original.
C11_DispatchByType ==
    [][\A w \in Workers :
          /\ (pc[w] = "getObject" /\ pc'[w] \notin {"getObject", "catch"}) =>
                /\ IsImage(Cur(w).fileType) => pc'[w] = "imgThumb"
                /\ IsVideo(Cur(w).fileType) => pc'[w] = "vidThumb"
                /\ IsOther(Cur(w).fileType) => pc'[w] = "updateMetadata"
          /\ (StepOf(w) /\ IsOther(Cur(w).fileType)) => objects' = objects
          /\ (pc[w] = "updateMetadata" /\ pc'[w] = "invalidateExact"
                /\ IsOther(Cur(w).fileType) /\ Target(w) \in MediaIds) =>
                /\ media'[Target(w)].status = "ready"
                /\ media'[Target(w)].metadata =
                      Some([size |-> objects[Cur(w).s3Key].len,
                            contentType |-> objects[Cur(w).s3Key].ctype])]_vars

\* A PDF has been through its run: ready, size and content type only, and
\* the original is the one object in the store.
C11_Witness ==
    /\ NoRunInProgress
    /\ \E m \in MediaIds :
          /\ media[m].file_type = AppPdf /\ Status(m) = "ready"
          /\ DOMAIN objects = {media[m].s3_key}
          /\ media[m].metadata = Some([size |-> 700, contentType |-> AppPdf])

\* C14: a ready video/* record has metadata with duration and codec at
\* their sentinel values 0 and 'unknown', and a thumbnailKey under which the
\* placeholder is in the object store.
C14_VideoReady ==
    \A m \in MediaIds :
        (Status(m) = "ready" /\ IsVideo(media[m].file_type)) =>
            /\ HasMeta(m)
            /\ {"duration", "codec"} \subseteq DOMAIN media[m].metadata[1]
            /\ media[m].metadata[1].duration = 0
            /\ media[m].metadata[1].codec = "unknown"
            /\ HasThumb(m)
            /\ media[m].thumbnail_key \in DOMAIN objects
            /\ objects[media[m].thumbnail_key] = PlaceholderBlob

\* A video has been through its run: ready, with the placeholder stored.
C14_Witness ==
    \E m \in MediaIds :
        /\ IsVideo(media[m].file_type) /\ Status(m) = "ready"
        /\ media[m].thumbnail_key = ThumbKey(media[m].s3_key)
        /\ ThumbKey(media[m].s3_key) \in DOMAIN objects
        /\ media[m].metadata[1].codec = "unknown"

\* C19: a step that sets a record to processing or failed changes nothing
\* of it but status and errorDetail: metadata, thumbnailKey and processedAt
\* stay as a prior attempt left them, and every other record stays as it is.
C19_StatusUpdateFrame ==
    [][\A m \in MediaIds :
          (media'[m] # media[m] /\ media'[m].status \in {"processing", "failed"}) =>
              /\ media'[m] = [media[m] EXCEPT !.status = media'[m].status,
                                              !.error_message = media'[m].error_message]
              /\ \A o \in MediaIds \ {m} : media'[o] = media[o]]_vars

\* A redelivered run has set a record to processing that carries the
\* metadata and thumbnailKey of an earlier completion.
C19_Witness ==
    \E m \in MediaIds : Status(m) = "processing" /\ HasMeta(m) /\ HasThumb(m)

Max(a, b) == IF a >= b THEN a ELSE b
Abs(a) == IF a >= 0 THEN a ELSE -a

\* C12 (as claimed): the thumbnail written is exactly 300x300; the medium
\* written has its longer side <= 800, the aspect ratio of its source within
\* the rounding of one side, and neither side larger than its source's.
C12_DerivativeSizes ==
    [][\A w \in Workers :
          /\ (pc[w] = "imgThumb" /\ pc'[w] = "imgMedium") =>
                LET t == objects'[ThumbKey(Cur(w).s3Key)]
                IN  t.w = 300 /\ t.h = 300
          /\ (pc[w] = "imgMedium" /\ pc'[w] = "updateMetadata") =>
                LET src == obj[w][1]
                    d == objects'[MediumKey(Cur(w).s3Key)]
                IN  /\ Max(d.w, d.h) <= 800
                    /\ 2 * Abs(d.w * src.h - d.h * src.w) <= Max(src.w, src.h)
                    /\ d.w <= src.w /\ d.h <= src.h]_vars

\* The keys of the scenario, piece by piece.
CatKey == <<"uploads/", "7", "/", "1700000000", "-", "cat", ".", "jpg">>
CatThumbKey == <<"uploads/", "7", "/", "1700000000", "-", "cat", "_thumb", ".", "jpg">>
CatMediumKey == <<"uploads/", "7", "/", "1700000000", "-", "cat", "_medium", ".", "jpg">>

\* C13: once the run for the job {42, 7, uploads/7/1700000000-cat.jpg,
\* image/jpeg} on the 1000x500 source has made its completion update, the
\* thumbnail is under ..._thumb.jpg at 300x300, the medium under
\* ..._medium.jpg at 800x400, and record 42 is ready with width 1000 and
\* height 500; it is so when the handler returns.
C13_CatScenario ==
    \A w \in Workers :
        (/\ pc[w] \in {"invalidateExact", "invalidatePattern", "returned"}
         /\ Cur(w) = JobBody(42, 7, CatKey, ImageJpeg)) =>
            /\ CatThumbKey \in DOMAIN objects
            /\ objects[CatThumbKey].w = 300 /\ objects[CatThumbKey].h = 300
            /\ CatMediumKey \in DOMAIN objects
            /\ objects[CatMediumKey].w = 800 /\ objects[CatMediumKey].h = 400
            /\ media[42].status = "ready"
            /\ media[42].thumbnail_key = CatThumbKey
            /\ media[42].metadata[1].width = 1000
            /\ media[42].metadata[1].height = 500

\* The handler has returned from the scenario's job.
C13_Witness ==
    /\ pc["w1"] = "returned"
    /\ Cur("w1") = JobBody(42, 7, CatKey, ImageJpeg)
    /\ media[42].status = "ready"
    /\ DOMAIN objects = {CatKey, CatThumbKey, CatMediumKey}

\* C20: when an invocation raises, no message of its batch is deleted: each
\* one, those of records already processed to ready included, is visible
\* again with its body, or dead-lettered once it has been received
\* MaxReceive times; and a run of a redelivered job sets its record to
\* processing again, whatever the record was.
C20_NoPartialAck ==
    [][\A w \in Workers :
          /\ (pc[w] = "raised" /\ pc'[w] = "idle") =>
                \A k \in DOMAIN batch[w] :
                    LET i == batch[w][k].messageId
                    IN  msgs[i].st = "inflight" =>
                            IF msgs[i].rc < MaxReceive
                            THEN msgs'[i] = [msgs[i] EXCEPT !.st = "visible"]
                            ELSE msgs'[i].st = "dead"
          /\ (pc[w] = "setProcessing" /\ pc'[w] = "getObject"
                /\ Target(w) \in MediaIds) =>
                media'[Target(w)].status = "processing"]_vars

\* Row 2 was processed to ready as the first record of a batch whose second
\* record, for row 1, failed; its job has been delivered again and its run
\* has set it back to processing.
C20_Witness ==
    \E w \in Workers :
        /\ Active(w) /\ Target(w) = 2
        /\ msgs[2].rc = 2 /\ msgs[1].rc >= 1
        /\ media[1].status = "failed"
        /\ media[2].status = "processing"
        /\ media[2].processed_at # NoTime
        /\ completedAt[media[2].user_id] = media[2].processed_at

\* C15: the shared_media table never holds two records of one
\* (mediaId, toUserId); its records never change once inserted; and an
\* INSERT that meets an existing record of its pair changes nothing and goes
\* on to the cache deletion and the success response like any other.
C15_OneSharePerPair ==
    /\ [](\A j, k \in DOMAIN shared :
            j # k => ~SamePair(shared[j], shared[k].media_id, shared[k].to_user_id))
    /\ [][/\ \A k \in DOMAIN shared : k \in DOMAIN shared' /\ shared'[k] = shared[k]
          /\ \A r \in ShareReqs :
                (/\ spc[r] = "insert" /\ spc'[r] = "del"
                 /\ \E k \in DOMAIN shared, t \in UsersByEmail(sreq[r].targetEmail) :
                       SamePair(shared[k], sreq[r].id, t))
                => shared' = shared
          /\ \A r \in ShareReqs :
                (spc[r] = "del" /\ spc'[r] = "idle") => sres'[r] \in {200, 500}]_vars

\* Two requests have shared the same media with the same user, both were
\* answered with success, and there is one record.
C15_Witness ==
    /\ \A r \in ShareReqs : spc[r] = "idle" /\ sres[r] = 200
    /\ sreq["s1"] = sreq["s2"]
    /\ Len(shared) = 1

\* C16: GetSecretValue is sent at most once in the life of the process.
C16_SingleFetch == fetches <= 1

\* C17: the server listens only once startServer's call of
\* initializeDatabasePool has returned; when that call throws, the process
\* has exited with code 1, and an exited process never listens.
C17_StartupFailureFatal ==
    /\ [](server = "listening" => ipc["main"] = "returned")
    /\ [](ipc["main"] = "threw" => server = "exit1")
    /\ [][/\ server = "exit1" => server' = "exit1"
          /\ (server' = "listening" /\ server # "listening")
                => (server = "starting" /\ ipc["main"] # "returned")]_vars

\* The secret could not be retrieved at startup and the process has exited
\* with code 1, with no pool.
C17_Witness ==
    /\ server = "exit1"
    /\ ipc["main"] = "threw"
    /\ fetches = 1
    /\ cachedCredentials = None
    /\ dbPool = None

\* C18: in a live process with no initialisation and no close under way,
\* getDatabasePool returns a pool exactly when a call of
\* initializeDatabasePool has returned and closeDatabasePool has not been
\* called since; else it throws.
C18_PoolIffInitialised ==
    (Alive /\ (\A c \in InitCalls : ~Pending(c)) /\ cpc = "idle")
        => (getDatabasePool # Throws <=> initOk)

\* The keys and the cache entry the current record of invocation w is about.
KeysOf(w) == {ThumbKey(Cur(w).s3Key), MediumKey(Cur(w).s3Key)}

Touched(f, g) ==
    {k \in DOMAIN f \cup DOMAIN g : k \notin DOMAIN f \/ k \notin DOMAIN g \/ f[k] # g[k]}

\* C21: within an invocation the position in the batch moves only forward,
\* by one, and only at the step that completes the cache invalidation of
\* the current record; every step of the invocation writes only the row,
\* the derivative keys and the cache entry of the record at that position.
C21_OneRecordAtATime ==
    [][\A w \in Workers :
          /\ (pc[w] \notin {"idle", "returned", "raised"} /\ idx'[w] # idx[w]) =>
                /\ pc[w] = "invalidatePattern"
                /\ idx'[w] = idx[w] + 1
                /\ pc'[w] = "parse"
          /\ StepOf(w) =>
                /\ Touched(media, media') \subseteq {Target(w)}
                /\ Touched(objects, objects') \subseteq KeysOf(w)
                /\ Touched(cache, cache') \subseteq {Cur(w).userId}]_vars

\* The invocation is at its second record, whose row is still pending,
\* after the first went through to ready and had its listing invalidated.
C21_Witness ==
    \E w \in Workers :
        /\ pc[w] = "setProcessing" /\ idx[w] = 2
        /\ Status(batch[w][1].body.mediaId) = "ready"
        /\ Status(Target(w)) = "pending"

\* The columns of a row that the INSERT of the upload-url route fills.
Created(row) ==
    [user_id |-> row.user_id, s3_key |-> row.s3_key, file_name |-> row.file_name,
     file_type |-> row.file_type]

\* C22: no step changes the ownerId, objectKey, fileName or declaredType of
\* a record: they are in every state what the INSERT of the upload-url
\* route made them.
C22_CreationFieldsKept ==
    /\ [](\A m \in MediaIds :
            /\ media[m].s3_key = UploadKey(media[m].user_id, m, media[m].file_name)
            /\ \E up \in Uploads \cup {SecondUpload} :
                  Created(media[m]) = Created(RowFor(m, IF m = 1 THEN 7 ELSE 8, up)))
    /\ [][\A m \in MediaIds : Created(media'[m]) = Created(media[m])]_vars

\* A record has been completed, taken back to processing by a redelivery
\* and failed, and is still the upload of user 7 under its key.
C22_Witness ==
    /\ Status(1) = "failed" /\ HasMeta(1) /\ media[1].processed_at # NoTime
    /\ media[1].user_id = 7
    /\ media[1].s3_key = UploadKey(7, 1, media[1].file_name)
    /\ media[1].s3_key \in DOMAIN objects

\* The derivative keys a metadata object names.
DerivedKeys(md) ==
    {md[f] : f \in {"thumbnailKey", "mediumKey"} \cap DOMAIN md}

\* C23: the keys in the metadata of a completion update are in the object
\* store when the update is made, and in every state a ready record's
\* thumbnailKey, and the mediumKey of its metadata, name objects that exist.
C23_DerivativesBeforeReady ==
    /\ [](\A m \in MediaIds :
            (Status(m) = "ready" /\ HasThumb(m)) =>
                /\ media[m].thumbnail_key \in DOMAIN objects
                /\ DerivedKeys(media[m].metadata[1]) \subseteq DOMAIN objects)
    /\ [](\A w \in Workers :
            pc[w] = "updateMetadata" => DerivedKeys(meta[w][1]) \subseteq DOMAIN objects)

\* A ready image whose thumbnail and medium derivative are both stored,
\* under keys of their own.
C23_Witness ==
    \E m \in MediaIds :
        /\ Status(m) = "ready" /\ HasThumb(m)
        /\ "mediumKey" \in DOMAIN media[m].metadata[1]
        /\ Cardinality({media[m].s3_key, media[m].thumbnail_key,
                        media[m].metadata[1].mediumKey} \cap DOMAIN objects) = 3

\* C24 (as claimed): a run never overwrites the original upload, and the
\* medium derivative never overwrites the thumbnail: the keys the worker
\* derives differ from the objectKey and from each other.
C24_DerivativesApart ==
    [][\A w \in Workers :
          (StepOf(w) /\ Cur(w).s3Key \in DOMAIN objects) =>
              /\ objects'[Cur(w).s3Key] = objects[Cur(w).s3Key]
              /\ (pc[w] = "imgMedium" /\ ThumbKey(Cur(w).s3Key) \in DOMAIN objects) =>
                    objects'[ThumbKey(Cur(w).s3Key)] = objects[ThumbKey(Cur(w).s3Key)]]_vars

\* Both invocations have run a well-formed job of record m to the end of
\* the handler, one delivery racing with the other.
BothDone(m) ==
    \A w \in Workers :
        pc[w] \in {"returned", "raised"} /\ ~Malformed(Cur(w)) /\ Target(w) = m

BothReturned(m) == BothDone(m) /\ \A w \in Workers : pc[w] = "returned"

NoOutage == \A w \in Workers : err[w] # Unavailable

Enqueued(m) == msgs[m].st = "visible"
Settled(m) == Status(m) \in {"ready", "failed"}

\* C26 (as claimed): with the store, the object store and the cache always
\* reachable, a record whose job is in the queue comes to ready or failed,
\* also when the host ends invocations in the middle of a job.
C26_EventuallySettled ==
    ([]NoOutage) => \A m \in InPlay : Enqueued(m) ~> Settled(m)

\* The rows of the records after the current one in the batch of w that
\* are there on their first delivery.
LaterFirstTime(w) ==
    {batch[w][k].body.mediaId :
        k \in {j \in DOMAIN batch[w] : j > idx[w] /\ msgs[batch[w][j].messageId].rc = 1}}

\* C27: what processMedia or the parse throws ends the loop: the handler
\* raises at the record it is at, and an invocation that raised takes no
\* step but its end, which writes nothing; the rows of the records after
\* that one, there on their first delivery, are as their INSERT made them.
C27_RaiseStopsBatch ==
    /\ [][\A w \in Workers :
            /\ (pc[w] = "catch" /\ StepOf(w)) => pc'[w] = "raised" /\ idx'[w] = idx[w]
            /\ (pc[w] = "parse" /\ StepOf(w) /\ ~Cur(w).json) => pc'[w] = "raised"
            /\ (pc[w] = "raised" /\ StepOf(w)) =>
                  /\ pc'[w] = "idle"
                  /\ media' = media /\ objects' = objects /\ cache' = cache]_vars
    /\ [](\A w \in Workers :
            pc[w] = "raised" =>
                \A m \in LaterFirstTime(w) :
                    /\ Status(m) = "pending"
                    /\ ~HasMeta(m) /\ ~HasThumb(m) /\ ~HasError(m))

\* The handler raised at the first of two records, whose row is failed;
\* the row of the second is pending.
C27_Witness ==
    \E w \in Workers :
        /\ pc[w] = "raised" /\ idx[w] = 1 /\ Len(batch[w]) = 2
        /\ Status(Target(w)) = "failed"
        /\ LaterFirstTime(w) # {}
        /\ \A m \in LaterFirstTime(w) : Status(m) = "pending"

\* The job of row m as the confirm route builds it for the row's owner.
JobOf(m) == JobBody(m, media[m].user_id, media[m].s3_key, media[m].file_type)

\* C28: a confirm request whose row is missing or another user's gets 404
\* and enqueues nothing; one whose row is the caller's enqueues, with its
\* 200, exactly one job {mediaId, userId, s3Key, fileType} of that row (or
\* nothing, with a 500, when the queue rejects); every message in the queue
\* is the job of a row and its owner; no step changes a row.
C28_ConfirmEnqueuesOne ==
    /\ [](\A i \in DOMAIN msgs :
            /\ msgs[i].body.mediaId \in DOMAIN media
            /\ msgs[i].body = JobOf(msgs[i].body.mediaId))
    /\ [][/\ media' = media
          /\ \A r \in ConfirmReqs :
                /\ (kpc[r] = "query" /\ kpc'[r] # "query") =>
                      /\ msgs' = msgs
                      /\ IF kreq[r].id \in DOMAIN media
                            /\ media[kreq[r].id].user_id = kreq[r].userId
                         THEN kpc'[r] = "send" \/ kres'[r] = 500
                         ELSE kpc'[r] = "idle" /\ kres'[r] \in {404, 500}
                /\ (kpc[r] = "send" /\ kpc'[r] # "send") =>
                      \/ /\ kres'[r] = 200
                         /\ msgs' = Append(msgs, [body |-> JobOf(kreq[r].id),
                                                  st |-> "visible", rc |-> 0])
                      \/ /\ kres'[r] = 500
                         /\ msgs' = msgs]_vars

\* User 8 was refused row 1 with 404, user 7 confirmed it with 200: one
\* job, that of row 1, and the row is still ready.
C28_Witness ==
    /\ kpc["k1"] = "idle" /\ kreq["k1"] = [userId |-> 8, id |-> 1] /\ kres["k1"] = 404
    /\ kpc["k2"] = "idle" /\ kreq["k2"] = [userId |-> 7, id |-> 1] /\ kres["k2"] = 200
    /\ Len(msgs) = 1 /\ msgs[1].body = JobOf(1)
    /\ Status(1) = "ready"

\* The checks of share request r as the state has them.
MediaOk(r) ==
    /\ sreq[r].id \in DOMAIN media
    /\ media[sreq[r].id].user_id = sreq[r].userId
    /\ Status(sreq[r].id) = "ready"

TargetOk(r) == \E u \in Users : EmailOf[u] = sreq[r].targetEmail

\* C29: every ShareRecord is of a ready media of its sharer to an existing
\* user; a request gets past the ownership check only for such a media and
\* to the INSERT only for an existing target; one that fails a check is
\* answered 404 (500 if the query was rejected) and leaves the table and
\* the cache as they are; the success response comes only after the INSERT
\* and the cache deletion.
C29_ShareOnlyOwnReady ==
    /\ [](\A k \in DOMAIN shared :
            /\ shared[k].media_id \in DOMAIN media
            /\ media[shared[k].media_id].user_id = shared[k].from_user_id
            /\ Status(shared[k].media_id) = "ready"
            /\ shared[k].to_user_id \in Users)
    /\ [](\A r \in ShareReqs :
            /\ spc[r] \in {"user", "insert", "del"} => MediaOk(r)
            /\ spc[r] \in {"insert", "del"} => TargetOk(r))
    /\ [][\A r \in ShareReqs :
            /\ (spc[r] = "media" /\ spc'[r] # "media" /\ ~MediaOk(r)) =>
                  /\ spc'[r] = "idle" /\ sres'[r] \in {404, 500}
                  /\ shared' = shared /\ cache' = cache
            /\ (spc[r] = "user" /\ spc'[r] # "user" /\ ~TargetOk(r)) =>
                  /\ spc'[r] = "idle" /\ sres'[r] \in {404, 500}
                  /\ shared' = shared /\ cache' = cache
            /\ (spc[r] # "idle" /\ spc'[r] = "idle" /\ sres'[r] = 200) =>
                  /\ spc[r] = "del"
                  /\ \E k \in DOMAIN shared, t \in UsersByEmail(sreq[r].targetEmail) :
                        SamePair(shared[k], sreq[r].id, t)]_vars

\* User 8 was refused the share of a pending upload of their own, user 7
\* the share of the ready PDF with an address of no user: two 404s, and
\* the table is empty.
C29_Witness ==
    /\ spc["s1"] = "idle" /\ sres["s1"] = 404
    /\ sreq["s1"] = [userId |-> 8, id |-> 2, targetEmail |-> EmailOf[7]]
    /\ spc["s2"] = "idle" /\ sres["s2"] = 404
    /\ sreq["s2"] = [userId |-> 7, id |-> 1, targetEmail |-> "nobody@example.com"]
    /\ shared = <<>>

\* C30 (as claimed): no two rows of users have one email; a request whose
\* email is registered when its check or its INSERT is answered ends with
\* 409, and creates no account.
C30_DuplicateEmailConflict ==
    /\ [](\A j, k \in DOMAIN accounts :
            j # k => accounts[j].email # accounts[k].email)
    /\ [][\A r \in RegisterReqs :
            (/\ gpc[r] \in {"check", "insert"} /\ gpc'[r] = "idle"
             /\ Registered(accounts, greq[r].email) # {}
             /\ gres'[r] # 500 \/ gpc[r] = "insert") =>
                gres'[r] = 409 /\ accounts' = accounts]_vars

====
